---- MODULE Spec2Model ----
(***************************************************************************)
(* A model of src/main.py: a pygame catch-the-falling-hearts game.  The    *)
(* frame loop of main() is one action (Frame); the pygame event queue is   *)
(* state, filled by FallingObject.update (MISSED_EVENT) and, as an input   *)
(* of each frame, by the spawn timer, the keyboard, the mouse and the      *)
(* window.  FloatingText.update is also exercised on its own (SpecText),   *)
(* the collision step of the frame on its own (SpecPipeline) and           *)
(* AnimatedGif on its own (SpecGif).  Of drawing, the calls of             *)
(* get_current_frame are modelled: they can raise.                         *)
(*                                                                         *)
(* Time: pygame.time.get_ticks() is the variable now; it advances when     *)
(* clock.tick(FPS) returns and every read within one frame sees the same   *)
(* value.                                                                  *)
(***************************************************************************)
EXTENDS Integers, Sequences, FiniteSets, TLC

---------------------------------------------------------------------------
(* Program constants                                                       *)

SCREEN_WIDTH == 600
SCREEN_HEIGHT == 800
FPS == 60
PLAYER_SPEED == 7
FALLING_OBJECT_SPEED_MIN == 3
FALLING_OBJECT_SPEED_MAX == 7
WIN_SCORE == 25
PLAYER_SIZE == 80
ITEM_SIZE == 50
PLAYER_BOTTOM_GAP == 20
EATING_DURATION == 1000
TEXT_DURATION == 1000
TOTAL_UPWARD_MOVEMENT == 30
FULL_ALPHA == 255
INFLATE_BY == 20
TEXT_FLOOR_GAP == 50
BUTTON_WIDTH == 150
BUTTON_HEIGHT == 50
BUTTON_DROP == 140
LEFT_BUTTON == 1
DEFAULT_GIF_DURATION == 100

---------------------------------------------------------------------------
(* Bounds of the model                                                     *)

\* Frames a run of the frame loop is followed for.
MaxFrames == 4
\* Falling objects alive (or about to be spawned) at once.
MaxItems == 2
\* A frame that overran: clock.tick(FPS) only guarantees a minimum.
StallMs == 500
\* get_ticks() at the mid-session instant the runs start from.
StartNow == 30000
\* Sprites in the group when the collision step is run on its own.
MaxPipelineItems == 2
\* How far past its duration a floating text is followed on its own.
TextOverrun == 40
\* Largest gap between two updates of a floating text followed on its own.
MaxTextStep == 3
\* Frames of an animation followed on its own.
MaxGifFrames == 3
\* How long after its construction an animation is followed on its own.
GifSpan == 400
\* Largest gap between two queries of an animation followed on its own.
MaxGifStep == 10

---------------------------------------------------------------------------
(* pygame.Rect                                                             *)

Rect(x, y, w, h) == [x |-> x, y |-> y, w |-> w, h |-> h]

\* Rect.colliderect: the interiors overlap; touching edges do not collide.
colliderect(a, b) ==
    /\ a.x < b.x + b.w
    /\ a.y < b.y + b.h
    /\ a.x + a.w > b.x
    /\ a.y + a.h > b.y

\* Rect.inflate(dx, dy): grows the size by dx, dy around the same centre.
\* Fault: grows the rect by dx, dy on every side.
BadInflatePerSide(r, dx, dy) == Rect(r.x - dx, r.y - dy, r.w + 2 * dx, r.h + 2 * dy)

\* Fault: shrinks the size by dx, dy around the same centre.
BadInflateShrinks(r, dx, dy) == Rect(r.x + dx \div 2, r.y + dy \div 2, r.w - dx, r.h - dy)

inflate(r, dx, dy) == Rect(r.x - dx \div 2, r.y - dy \div 2, r.w + dx, r.h + dy)

\* Rect.collidepoint: left and top edges are inside, right and bottom are not.
collidepoint(r, p) ==
    /\ p[1] >= r.x /\ p[1] < r.x + r.w
    /\ p[2] >= r.y /\ p[2] < r.y + r.h

\* Rect.center
center(r) == <<r.x + r.w \div 2, r.y + r.h \div 2>>

\* button_rect: 150 x 50, centred at (SCREEN_WIDTH // 2, SCREEN_HEIGHT // 2 + 140).
button_rect ==
    Rect(SCREEN_WIDTH \div 2 - BUTTON_WIDTH \div 2,
         SCREEN_HEIGHT \div 2 + BUTTON_DROP - BUTTON_HEIGHT \div 2,
         BUTTON_WIDTH, BUTTON_HEIGHT)

---------------------------------------------------------------------------
(* FloatingText                                                            *)

\* Elapsed times at which the double product 255 * (1 - elapsed / 1000)
\* falls just below its exact integer value (1 - 0.8 is 0.19999999999999996),
\* so that int() yields one less than the exact quotient.
AlphaRoundsDown == {800}

\* int(255 * (1 - elapsed / duration)) for 0 <= elapsed < duration.
\* Fault: rounds up instead of truncating.
BadIntAlphaCeil(elapsed, duration) ==
    (FULL_ALPHA * (duration - elapsed) + duration - 1) \div duration

IntAlpha(elapsed, duration) ==
    (FULL_ALPHA * (duration - elapsed)) \div duration
        - (IF duration = TEXT_DURATION /\ elapsed \in AlphaRoundsDown THEN 1 ELSE 0)

\* The binade of j / 10: the largest k with 10 * 2^k <= j, searched from k up.
RECURSIVE Binade(_, _)
Binade(j, k) == IF 20 * 2^k > j THEN k ELSE Binade(j, k + 1)

\* Elapsed times at which the double product (elapsed / 1000) * 30 falls just
\* below its exact value, an integer, so that int() yields one less (at 4100
\* it is 122.99999999999999).  With elapsed = 100 * j and 2^k <= j / 10 <
\* 2^(k+1): the quotient j / 10 is rounded to 53 bits, down by 2/5 of its
\* last place exactly when j * 2^(51-k) = 2 (mod 5); times 30 that is 3/4 of
\* the last place of the product when the product 3 * j is below 2^(k+5),
\* and the product is rounded down by one place.  Elsewhere the double
\* product truncates to the exact quotient.
OffsetRoundsDown(elapsed) ==
    /\ elapsed % 100 = 0
    /\ elapsed \div 100 >= 10
    /\ LET j == elapsed \div 100
           k == Binade(j, 0)
       IN /\ 3 * j < 32 * 2^k
          /\ ((j % 5) * <<1, 2, 4, 3>>[((51 - k) % 4) + 1]) % 5 = 2

\* int((elapsed / duration) * total_upward_movement) for elapsed >= 0.
IntOffset(elapsed, duration) ==
    (elapsed * TOTAL_UPWARD_MOVEMENT) \div duration
        - (IF duration = TEXT_DURATION /\ OffsetRoundsDown(elapsed) THEN 1 ELSE 0)

\* FloatingText.__init__
NewText(id, pos, t) ==
    [id |-> id, start_time |-> t, duration |-> TEXT_DURATION,
     x |-> pos[1], y0 |-> pos[2], alpha |-> FULL_ALPHA, y |-> pos[2]]

\* FloatingText.update at get_ticks() = t
TextUpdate(txt, t) ==
    LET elapsed == t - txt.start_time
        a == IF elapsed >= txt.duration THEN 0 ELSE IntAlpha(elapsed, txt.duration)
        upward_offset == IntOffset(elapsed, txt.duration)
    IN [txt EXCEPT !.alpha = a, !.y = txt.y0 - upward_offset]

\* FloatingText.is_dead
is_dead(txt) == txt.alpha <= 0

---------------------------------------------------------------------------
(* AnimatedGif                                                             *)

\* The running total of a list of durations: cumulative_durations.
RECURSIVE Cumulative(_, _)
Cumulative(durs, total) ==
    IF durs = <<>> THEN <<>>
    ELSE <<total + Head(durs)>> \o Cumulative(Tail(durs), total + Head(durs))

\* AnimatedGif.__init__ at get_ticks() = t.  opened: Image.open succeeded;
\* durs: the duration of each frame of the file, as im.info gives it (a file
\* that opens has at least one frame).  frames[i] is the identity of the
\* i-th surface.  A failed load returns before total_duration and start_time
\* are assigned: the object has no such attributes.
AnimatedGif(opened, durs, t) ==
    IF ~opened
    THEN [frames |-> <<>>, durations |-> <<>>, cumulative_durations |-> <<>>]
    ELSE [frames |-> [i \in 1..Len(durs) |-> i],
          durations |-> durs,
          cumulative_durations |-> Cumulative(durs, 0),
          total_duration |-> IF durs = <<>> THEN 0
                             ELSE Cumulative(durs, 0)[Len(durs)],
          start_time |-> t]

\* What a call of get_current_frame yields: a frame, None, or an exception.
NoneResult == [status |-> "None", frame |-> 0]
FrameResult(f) == [status |-> "frame", frame |-> f]
Raised(exc) == [status |-> exc, frame |-> 0]
Unqueried == [status |-> "unqueried", frame |-> 0]

\* AnimatedGif.get_current_frame at get_ticks() = t.
\* Fault: the elapsed time is not reduced modulo total_duration.
BadGetCurrentFrameNoModulo(a, t) ==
    IF a.frames = <<>> THEN NoneResult
    ELSE IF a.total_duration = 0 THEN Raised("ZeroDivisionError")
    ELSE LET elapsed == t - a.start_time
             before == {i \in 1..Len(a.cumulative_durations) :
                           elapsed < a.cumulative_durations[i]}
         IN IF before # {}
            THEN FrameResult(a.frames[CHOOSE i \in before : \A j \in before : i <= j])
            ELSE FrameResult(a.frames[Len(a.frames)])

\* Fault: a frame is shown up to and including its cumulative duration.
BadGetCurrentFrameInclusive(a, t) ==
    IF a.frames = <<>> THEN NoneResult
    ELSE IF a.total_duration = 0 THEN Raised("ZeroDivisionError")
    ELSE LET elapsed == (t - a.start_time) % a.total_duration
             before == {i \in 1..Len(a.cumulative_durations) :
                           elapsed <= a.cumulative_durations[i]}
         IN IF before # {}
            THEN FrameResult(a.frames[CHOOSE i \in before : \A j \in before : i <= j])
            ELSE FrameResult(a.frames[Len(a.frames)])

\* The modulo by total_duration raises ZeroDivisionError when it is 0; the
\* for loop returns at the first index whose cumulative duration exceeds
\* elapsed.
get_current_frame(a, t) ==
    IF a.frames = <<>> THEN NoneResult
    ELSE IF a.total_duration = 0 THEN Raised("ZeroDivisionError")
    ELSE LET elapsed == (t - a.start_time) % a.total_duration
             before == {i \in 1..Len(a.cumulative_durations) :
                           elapsed < a.cumulative_durations[i]}
         IN IF before # {}
            THEN FrameResult(a.frames[CHOOSE i \in before : \A j \in before : i <= j])
            ELSE FrameResult(a.frames[Len(a.frames)])

---------------------------------------------------------------------------
(* State                                                                   *)

VARIABLES
    game_over,        \* main: game_over
    final_screen,     \* main: final_screen
    running,          \* FALSE once pygame.quit(); sys.exit() has run
    score,            \* main: score
    player_rect,      \* player.rect
    player_image,     \* player.image: "original" or "eating"
    eating_end_time,  \* player.eating_end_time
    falling_objects,  \* the sprite group: a set of [id, rect, speed]
    floating_texts,   \* main: floating_texts, a list
    events,           \* the pygame event queue
    now,              \* pygame.time.get_ticks()
    next_id,          \* identity of the next sprite created
    frame_no,         \* frames run so far
    missed_log,       \* every MISSED_EVENT posted so far: <<id, position>>
    text_log,         \* every FloatingText created so far: <<id, position>>
    ending_animation, \* main: ending_animation, an AnimatedGif
    final_animation,  \* main: final_animation, an AnimatedGif
    shown,            \* what the last get_current_frame() yielded
    probe,            \* what the last frame's steps saw and did
    pc                \* "loop" in the frame loop; "input", "done", "text", "gif",
                      \* "raised" in unit runs

vars == <<game_over, final_screen, running, score, player_rect, player_image,
          eating_end_time, falling_objects, floating_texts, events, now,
          next_id, frame_no, missed_log, text_log, ending_animation, final_animation,
          shown, probe, pc>>

\* The screen the render step of the frame draws.
Phase ==
    IF ~game_over THEN "Playing" ELSE IF ~final_screen THEN "Ended" ELSE "Final"

---------------------------------------------------------------------------
(* Player                                                                  *)

\* Player.__init__: an 80 x 80 rect with midbottom (SCREEN_WIDTH // 2, SCREEN_HEIGHT - 20).
PlayerStartRect ==
    Rect(SCREEN_WIDTH \div 2 - PLAYER_SIZE \div 2,
         SCREEN_HEIGHT - PLAYER_BOTTOM_GAP - PLAYER_SIZE, PLAYER_SIZE, PLAYER_SIZE)

\* Player.update, the movement and clamping of rect.
\* Fault: the right edge is not clamped.
BadPlayerMoveNoRightClamp(r, left, right) ==
    LET x1 == IF left THEN r.x - PLAYER_SPEED ELSE r.x
        x2 == IF right THEN x1 + PLAYER_SPEED ELSE x1
        x3 == IF x2 < 0 THEN 0 ELSE x2
    IN [r EXCEPT !.x = x3]

PlayerMove(r, left, right) ==
    LET x1 == IF left THEN r.x - PLAYER_SPEED ELSE r.x
        x2 == IF right THEN x1 + PLAYER_SPEED ELSE x1
        x3 == IF x2 < 0 THEN 0 ELSE x2
        x4 == IF x3 + r.w > SCREEN_WIDTH THEN SCREEN_WIDTH - r.w ELSE x3
    IN [r EXCEPT !.x = x4]

\* Player.update, the choice of image (eating_image is always set by main).
\* Fault: the eating image is still used at eating_end_time itself.
BadPlayerPoseInclusive(t, end_time) == IF t <= end_time THEN "eating" ELSE "original"

PlayerPose(t, end_time) == IF t < end_time THEN "eating" ELSE "original"

\* Player.trigger_eating at get_ticks() = t
\* Fault: the duration is not added.
BadTriggerEatingNoDuration(t) == t

trigger_eating(t) == t + EATING_DURATION

---------------------------------------------------------------------------
(* FallingObject                                                           *)

\* FallingObject.__init__ with the two random draws x and speed.
NewFallingObject(id, x, speed) ==
    [id |-> id, rect |-> Rect(x, 0 - ITEM_SIZE, ITEM_SIZE, ITEM_SIZE), speed |-> speed]

\* FallingObject.update: the move.
Fall(o) == [o EXCEPT !.rect.y = o.rect.y + o.speed]

\* FallingObject.update: the test that posts MISSED_EVENT and kills the sprite.
Exited(o) == o.rect.y > SCREEN_HEIGHT

MissedEvent(o) ==
    [type |-> "MISSED", pos |-> center(o.rect), button |-> 0, id |-> o.id]

\* The sprites of a group in the order Group.update visits them: the order
\* they were added in, which is the order of their ids.
RECURSIVE InOrder(_)
InOrder(S) ==
    IF S = {} THEN <<>>
    ELSE LET first == CHOOSE o \in S : \A p \in S : o.id <= p.id
         IN <<first>> \o InOrder(S \ {first})

RECURSIVE MissedEvents(_)
MissedEvents(objs) ==
    IF objs = <<>> THEN <<>>
    ELSE (IF Exited(Head(objs)) THEN <<MissedEvent(Head(objs))>> ELSE <<>>)
             \o MissedEvents(Tail(objs))

\* falling_objects.update(): every sprite falls; those past the bottom post
\* MISSED_EVENT and leave the group.
\* Fault: a sprite past the bottom is not killed.
BadGroupUpdateNoKill(S) ==
    LET moved == {Fall(o) : o \in S}
    IN [alive |-> moved, posted |-> MissedEvents(InOrder(moved))]

GroupUpdate(S) ==
    LET moved == {Fall(o) : o \in S}
    IN [alive |-> {o \in moved : ~Exited(o)},
        posted |-> MissedEvents(InOrder(moved))]

---------------------------------------------------------------------------
(* The collision and scoring steps of a Playing frame                      *)

\* The soft-contact loop: some sprite's rect, inflated by (20, 20), collides
\* with the player's rect.
SoftContact(prect, S) ==
    \E o \in S : colliderect(prect, inflate(o.rect, INFLATE_BY, INFLATE_BY))

\* for obj in falling_objects: if the inflated rect collides,
\* player.trigger_eating() and break.  objs: the sprites in the group's
\* order; acc: eating_end_time and the calls of trigger_eating so far.
\* Fault: the loop does not break at the first sprite in soft contact.
RECURSIVE BadSoftLoopNoBreak(_, _, _, _)
BadSoftLoopNoBreak(objs, prect, acc, t) ==
    IF objs = <<>> THEN acc
    ELSE IF colliderect(prect, inflate(Head(objs).rect, INFLATE_BY, INFLATE_BY))
    THEN BadSoftLoopNoBreak(Tail(objs), prect,
                            [eating_end_time |-> trigger_eating(t),
                             calls |-> acc.calls + 1], t)
    ELSE BadSoftLoopNoBreak(Tail(objs), prect, acc, t)

RECURSIVE SoftLoop(_, _, _, _)
SoftLoop(objs, prect, acc, t) ==
    IF objs = <<>> THEN acc
    ELSE IF colliderect(prect, inflate(Head(objs).rect, INFLATE_BY, INFLATE_BY))
    THEN [eating_end_time |-> trigger_eating(t), calls |-> acc.calls + 1]
    ELSE SoftLoop(Tail(objs), prect, acc, t)

\* pygame.sprite.spritecollide(player, falling_objects, True): the sprites whose
\* rect collides with the player's; they are killed.
\* Fault: the capture test uses the inflated rect.
BadHitsInflated(prect, S) ==
    {o \in S : colliderect(prect, inflate(o.rect, INFLATE_BY, INFLATE_BY))}

Hits(prect, S) == {o \in S : colliderect(prect, o.rect)}

\* The new score: score += len(hits).
\* Fault: the score is assigned, not incremented.
BadScoredAssign(sc, hits) == Cardinality(hits)

Scored(sc, hits) == sc + Cardinality(hits)

\* The win test.
\* Fault: the threshold itself does not win.
BadWonAbove(sc) == sc > WIN_SCORE

Won(sc) == sc >= WIN_SCORE

\* The frame's soft contact, hard capture and win check, at get_ticks() = t,
\* on the player's rect, the sprite group, the message list and the score.
\* Fault: the sprites hit are not removed from the group.
BadCollideKeepsHits(prect, S, texts, sc, end_time, t) ==
    LET soft == SoftContact(prect, S)
        loop == SoftLoop(InOrder(S), prect,
                         [eating_end_time |-> end_time, calls |-> 0], t)
        hits == Hits(prect, S)
        sc2 == Scored(sc, hits)
        won == Won(sc2)
    IN [eating_end_time |-> loop.eating_end_time,
        soft |-> soft,
        calls |-> loop.calls,
        hits |-> hits,
        score |-> sc2,
        game_over |-> won,
        falling |-> IF won THEN {} ELSE S,
        texts |-> IF won THEN <<>> ELSE texts]

Collide(prect, S, texts, sc, end_time, t) ==
    LET soft == SoftContact(prect, S)
        loop == SoftLoop(InOrder(S), prect,
                         [eating_end_time |-> end_time, calls |-> 0], t)
        hits == Hits(prect, S)
        sc2 == Scored(sc, hits)
        won == Won(sc2)
    IN [eating_end_time |-> loop.eating_end_time,
        soft |-> soft,
        calls |-> loop.calls,
        hits |-> hits,
        score |-> sc2,
        game_over |-> won,
        falling |-> IF won THEN {} ELSE S \ hits,
        texts |-> IF won THEN <<>> ELSE texts]

---------------------------------------------------------------------------
(* The event loop of a frame                                               *)

SpawnEvent == [type |-> "SPAWN", pos |-> <<0, 0>>, button |-> 0, id |-> 0]
KeyDownEvent == [type |-> "KEYDOWN", pos |-> <<0, 0>>, button |-> 0, id |-> 0]
QuitEvent == [type |-> "QUIT", pos |-> <<0, 0>>, button |-> 0, id |-> 0]
MouseDownEvent(p, b) == [type |-> "MOUSEBUTTONDOWN", pos |-> p, button |-> b, id |-> 0]

\* The position a MISSED_EVENT's message is anchored at.
TextAnchor(pos) ==
    IF pos[2] > SCREEN_HEIGHT - TEXT_FLOOR_GAP
    THEN <<pos[1], SCREEN_HEIGHT - TEXT_FLOOR_GAP>> ELSE pos

\* The events handled while not game_over.  st holds what the event loop can
\* change; st.rnd holds the draws random.randint returns to the sprites
\* created in this loop.
\* Fault: a SPAWN_EVENT creates two sprites.
BadHandlePlayingTwoSprites(st, e, t) ==
    IF e.type = "SPAWN" THEN
      [st EXCEPT
         !.falling = @ \cup {NewFallingObject(st.next_id, Head(st.rnd)[1], Head(st.rnd)[2]),
                             NewFallingObject(st.next_id + 1, Head(st.rnd)[1], Head(st.rnd)[2])},
         !.spawned = @ \cup {st.next_id, st.next_id + 1},
         !.next_id = @ + 2,
         !.rnd = Tail(@)]
    ELSE IF e.type = "MISSED" THEN
      [st EXCEPT !.texts = Append(@, NewText(e.id, TextAnchor(e.pos), t))]
    ELSE st

\* Fault: a MISSED_EVENT creates no message.
BadHandlePlayingDropsMissed(st, e, t) ==
    IF e.type = "SPAWN" THEN
      [st EXCEPT
         !.falling = @ \cup {NewFallingObject(st.next_id, Head(st.rnd)[1], Head(st.rnd)[2])},
         !.spawned = @ \cup {st.next_id},
         !.next_id = @ + 1,
         !.rnd = Tail(@)]
    ELSE st

HandlePlaying(st, e, t) ==
    IF e.type = "SPAWN" THEN
      [st EXCEPT
         !.falling = @ \cup {NewFallingObject(st.next_id, Head(st.rnd)[1], Head(st.rnd)[2])},
         !.spawned = @ \cup {st.next_id},
         !.next_id = @ + 1,
         !.rnd = Tail(@)]
    ELSE IF e.type = "MISSED" THEN
      [st EXCEPT !.texts = Append(@, NewText(e.id, TextAnchor(e.pos), t))]
    ELSE st

\* The events handled on the ending screen (game_over and not final_screen).
\* Fault: any mouse button counts.
BadHandleEndingAnyButton(st, e) ==
    IF /\ e.type = "MOUSEBUTTONDOWN"
       /\ collidepoint(button_rect, e.pos)
    THEN [st EXCEPT !.final_screen = TRUE]
    ELSE st

HandleEnding(st, e) ==
    IF /\ e.type = "MOUSEBUTTONDOWN"
       /\ e.button = LEFT_BUTTON
       /\ collidepoint(button_rect, e.pos)
    THEN [st EXCEPT !.final_screen = TRUE]
    ELSE st

\* One event of the loop; over is game_over, which the loop does not change.
\* Fault: a click on the button toggles final_screen on either end screen.
BadHandleEventToggle(st, e, over, t) ==
    IF e.type = "QUIT" THEN [st EXCEPT !.running = FALSE]
    ELSE
      LET st1 == IF ~over THEN HandlePlaying(st, e, t)
                 ELSE IF /\ e.type = "MOUSEBUTTONDOWN"
                         /\ e.button = LEFT_BUTTON
                         /\ collidepoint(button_rect, e.pos)
                      THEN [st EXCEPT !.final_screen = ~@]
                 ELSE st
      IN IF st1.final_screen /\ e.type = "KEYDOWN"
         THEN [st1 EXCEPT !.running = FALSE]
         ELSE st1

HandleEvent(st, e, over, t) ==
    IF e.type = "QUIT" THEN [st EXCEPT !.running = FALSE]
    ELSE
      LET st1 == IF ~over THEN HandlePlaying(st, e, t)
                 ELSE IF over /\ ~st.final_screen THEN HandleEnding(st, e)
                 ELSE st
      IN IF st1.final_screen /\ e.type = "KEYDOWN"
         THEN [st1 EXCEPT !.running = FALSE]
         ELSE st1

\* for event in pygame.event.get(): the loop ends early when the process exits.
RECURSIVE ProcessEvents(_, _, _, _)
ProcessEvents(st, q, over, t) ==
    IF q = <<>> \/ ~st.running THEN st
    ELSE ProcessEvents(HandleEvent(st, Head(q), over, t), Tail(q), over, t)

\* The SPAWN events of a queue that a loop run with game_over = over handles:
\* those ahead of the first QUIT, at which the process exits.
NSpawns(q, over) ==
    IF over THEN 0
    ELSE Cardinality({i \in 1..Len(q) :
                         /\ q[i].type = "SPAWN"
                         /\ \A j \in 1..(i - 1) : q[j].type # "QUIT"})

\* for text in floating_texts[:]: update it, and remove it if it is dead.
TextLoop(texts, t) ==
    LET upd == [i \in 1..Len(texts) |-> TextUpdate(texts[i], t)]
    IN SelectSeq(upd, LAMBDA x : ~is_dead(x))

---------------------------------------------------------------------------
(* Inputs the runs draw from                                               *)

\* The ends of the range of random.randint(0, SCREEN_WIDTH - 50).
SpawnXs == {0, SCREEN_WIDTH - ITEM_SIZE}

\* The draws (x, speed) of random.randint that are followed: the two ends of
\* both ranges.
SpawnDraws ==
    {<<0, FALLING_OBJECT_SPEED_MIN>>, <<SCREEN_WIDTH - ITEM_SIZE, FALLING_OBJECT_SPEED_MAX>>}

\* Mouse clicks: the left button on the button's top-left corner (inside) and
\* on the first column right of it (outside), another button inside.
ClickIn == MouseDownEvent(<<button_rect.x, button_rect.y>>, LEFT_BUTTON)
ClickOut == MouseDownEvent(<<button_rect.x + button_rect.w, button_rect.y>>, LEFT_BUTTON)
OtherClickIn == MouseDownEvent(<<button_rect.x, button_rect.y>>, LEFT_BUTTON + 2)

\* What has been posted from outside since the last pygame.event.get().
Arrivals ==
    {<<SpawnEvent>>, <<SpawnEvent, SpawnEvent>>, <<KeyDownEvent>>, <<QuitEvent>>,
     <<ClickIn>>, <<ClickOut>>, <<OtherClickIn>>,
     <<ClickIn, KeyDownEvent>>, <<KeyDownEvent, ClickIn>>, <<SpawnEvent, QuitEvent>>}

\* clock.tick(FPS) returns after at least 1000 // FPS ms.
MinFrameMs == 1000 \div FPS

\* The inputs of one frame: the arrivals, the arrow keys held and the ms the
\* frame took.  Keys are varied in quiet frames, arrivals in frames of the
\* minimum length, and a frame may overrun.
FrameInputs ==
    {[ext |-> <<>>, left |-> l, right |-> r, dt |-> MinFrameMs] : l \in BOOLEAN, r \in BOOLEAN}
      \cup {[ext |-> <<>>, left |-> FALSE, right |-> FALSE, dt |-> d] : d \in {StallMs, 2 * StallMs}}
      \cup {[ext |-> a, left |-> FALSE, right |-> FALSE, dt |-> MinFrameMs] : a \in Arrivals}

\* The lowest y, at most lim, of a sprite that has fallen from y = -50 at speed s.
FallenTo(lim, s) == lim - ((lim + ITEM_SIZE) % s)
\* Above the reach of the player's rect, inflated or not.
ClearY(s) == FallenTo(PlayerStartRect.y - ITEM_SIZE - INFLATE_BY \div 2, s)
\* Within the inflated reach of the player's top edge, and not below that edge.
TouchY(s) == FallenTo(PlayerStartRect.y - ITEM_SIZE, s)
\* About to leave the field in its next update.
LeavingY(s) == FallenTo(SCREEN_HEIGHT, s)

Sprite(id, x, y, s) == [id |-> id, rect |-> Rect(x, y, ITEM_SIZE, ITEM_SIZE), speed |-> s]

\* Mid-session snapshots with the player at its start position and no
\* message on screen: the sprite group, and whether the last frame's
\* soft-contact test succeeded.  Ids follow the order of creation: every
\* sprite is updated once per frame, so a sprite created earlier has had at
\* least as many updates, (y + 50) / speed, as one created later.
Snapshots ==
    {[falling |-> {}, touching |-> FALSE],
     [falling |-> {Sprite(1, 270, ClearY(FALLING_OBJECT_SPEED_MAX), FALLING_OBJECT_SPEED_MAX)},
      touching |-> FALSE],
     [falling |-> {Sprite(1, 345, ClearY(FALLING_OBJECT_SPEED_MAX), FALLING_OBJECT_SPEED_MAX)},
      touching |-> FALSE],
     [falling |-> {Sprite(1, SCREEN_WIDTH - ITEM_SIZE, LeavingY(FALLING_OBJECT_SPEED_MAX),
                          FALLING_OBJECT_SPEED_MAX),
                   Sprite(2, 270, ClearY(FALLING_OBJECT_SPEED_MAX), FALLING_OBJECT_SPEED_MAX)},
      touching |-> FALSE],
     [falling |-> {Sprite(1, 270, TouchY(FALLING_OBJECT_SPEED_MAX), FALLING_OBJECT_SPEED_MAX)},
      touching |-> TRUE],
     [falling |-> {Sprite(1, 330, TouchY(FALLING_OBJECT_SPEED_MIN), FALLING_OBJECT_SPEED_MIN),
                   Sprite(2, 270, TouchY(FALLING_OBJECT_SPEED_MAX), FALLING_OBJECT_SPEED_MAX)},
      touching |-> TRUE],
     [falling |-> {Sprite(1, SCREEN_WIDTH - ITEM_SIZE, LeavingY(FALLING_OBJECT_SPEED_MIN),
                          FALLING_OBJECT_SPEED_MIN)},
      touching |-> FALSE],
     [falling |-> {Sprite(1, SCREEN_WIDTH - ITEM_SIZE, LeavingY(FALLING_OBJECT_SPEED_MAX),
                          FALLING_OBJECT_SPEED_MAX),
                   Sprite(2, 270, TouchY(FALLING_OBJECT_SPEED_MAX), FALLING_OBJECT_SPEED_MAX)},
      touching |-> TRUE],
     [falling |-> {Sprite(1, 400, LeavingY(FALLING_OBJECT_SPEED_MIN), FALLING_OBJECT_SPEED_MIN),
                   Sprite(2, SCREEN_WIDTH - ITEM_SIZE, LeavingY(FALLING_OBJECT_SPEED_MAX),
                          FALLING_OBJECT_SPEED_MAX)},
      touching |-> FALSE]}

\* Scores a session passes through.
ScoreStarts == {0, WIN_SCORE - 2, WIN_SCORE - 1}

\* Player positions next to the field's edges: 260 - 37 * 7 and 260 + 37 * 7.
EdgeXs == {PlayerStartRect.x - 37 * PLAYER_SPEED, PlayerStartRect.x + 37 * PLAYER_SPEED}

\* The two GIF files main loads, sprites/dog.gif and sprites/yippee.gif:
\* neither opens; both open with frames of positive duration; one of them
\* is a single frame of duration 0.
NoGameGifs ==
    [ending |-> [opened |-> FALSE, durs |-> <<>>],
     final |-> [opened |-> FALSE, durs |-> <<>>]]

GameGifs ==
    LET none == [opened |-> FALSE, durs |-> <<>>]
        still == [opened |-> TRUE, durs |-> <<0>>]
        moving == [opened |-> TRUE, durs |-> <<20, DEFAULT_GIF_DURATION>>]
    IN {[ending |-> none, final |-> none], [ending |-> moving, final |-> moving],
        [ending |-> still, final |-> moving], [ending |-> moving, final |-> still]}

\* The render step's call of get_current_frame at get_ticks() = t: none on
\* the playing screen, ending_animation's on the ending screen,
\* final_animation's on the final screen.  was: the result of the last call.
Render(over, final, was, t) ==
    IF ~over THEN was
    ELSE IF ~final THEN get_current_frame(ending_animation, t)
    ELSE get_current_frame(final_animation, t)

\* An exception raised by the render step is not caught: the process ends.
Survives(result) == result.status \in {"unqueried", "frame", "None"}

NoProbe ==
    [played |-> FALSE, player |-> PlayerStartRect, items |-> {}, score0 |-> 0,
     soft |-> FALSE, calls |-> 0, hits |-> {}, seen |-> 0, spawned |-> {},
     texts0 |-> 0, posted |-> <<>>, queue |-> <<>>, phase0 |-> "Playing", t |-> 0]

\* The messages appended to the list texts0 to give texts1, as <<id, position>>.
Made(texts0, texts1) ==
    [i \in 1..(Len(texts1) - Len(texts0)) |->
        <<texts1[Len(texts0) + i].id,
          <<texts1[Len(texts0) + i].x, texts1[Len(texts0) + i].y0>>>>]

---------------------------------------------------------------------------
(* The frame loop                                                          *)

\* A state the session is in between two frames, while Playing.  Where the
\* score is too low for the run to reach the ending screen, the GIF files
\* are never queried, and one pair of them is followed.
Init ==
    /\ game_over = FALSE
    /\ final_screen = FALSE
    /\ running = TRUE
    /\ score \in ScoreStarts
    /\ now = StartNow
    /\ \/ \E snap \in Snapshots :
            /\ player_rect = PlayerStartRect
            /\ falling_objects = snap.falling
            /\ eating_end_time = IF snap.touching THEN trigger_eating(StartNow)
                                 ELSE IF score = 0 THEN 0 ELSE StartNow
            /\ player_image = IF snap.touching THEN "eating" ELSE "original"
       \/ /\ player_rect \in {[PlayerStartRect EXCEPT !.x = x] : x \in EdgeXs}
          /\ falling_objects = {}
          /\ eating_end_time = IF score = 0 THEN 0 ELSE StartNow
          /\ player_image = "original"
    /\ floating_texts = <<>>
    /\ events = <<>>
    /\ next_id = Cardinality(falling_objects) + 1
    /\ frame_no = 0
    /\ missed_log = <<>>
    /\ text_log = <<>>
    /\ \E g \in IF score + MaxFrames * MaxItems < WIN_SCORE
                  THEN {NoGameGifs} ELSE GameGifs :
         /\ ending_animation = AnimatedGif(g.ending.opened, g.ending.durs, 0)
         /\ final_animation = AnimatedGif(g.final.opened, g.final.durs, 0)
    /\ shown = Unqueried
    /\ probe = NoProbe
    /\ pc = "loop"

\* One pass of the while True loop, from clock.tick to display.flip.  ext:
\* the events that arrived since the last pass (queued behind the MISSED
\* events the last pass posted); (left, right): the arrow keys held; dt: the
\* ms clock.tick returns after; rnd: the draws of random.randint.  The pass
\* ends the process at sys.exit() in the event loop, or at an exception
\* get_current_frame raises in the render step.
FrameStep(ext, left, right, dt, rnd) ==
    LET t == now + dt
        st0 == [final_screen |-> final_screen, falling |-> falling_objects,
                texts |-> floating_texts, next_id |-> next_id, running |-> TRUE,
                rnd |-> rnd, spawned |-> {}]
    IN
    \E st \in {ProcessEvents(st0, events \o ext, game_over, t)} :
    /\ now' = t
    /\ frame_no' = frame_no + 1
    /\ final_screen' = st.final_screen
    /\ next_id' = st.next_id
    /\ pc' = pc
    /\ text_log' = text_log \o Made(floating_texts, st.texts)
    /\ UNCHANGED <<ending_animation, final_animation>>
    /\ IF ~st.running THEN
         \* pygame.quit(); sys.exit(): the rest of the frame does not run.
         /\ running' = FALSE
         /\ shown' = shown
         /\ falling_objects' = st.falling
         /\ floating_texts' = st.texts
         /\ events' = <<>>
         /\ probe' = [NoProbe EXCEPT !.t = t, !.spawned = st.spawned,
                                      !.queue = IF game_over THEN events \o ext
                                                ELSE <<>>,
                                      !.phase0 = Phase]
         /\ UNCHANGED <<game_over, score, player_rect, player_image,
                        eating_end_time, missed_log>>
       ELSE IF ~game_over THEN
         \E prect \in {PlayerMove(player_rect, left, right)},
            upd \in {GroupUpdate(st.falling)} :
         \E c \in {Collide(prect, upd.alive, st.texts, score, eating_end_time, t)} :
         /\ shown' = Render(c.game_over, st.final_screen, shown, t)
         /\ running' = Survives(Render(c.game_over, st.final_screen, shown, t))
         /\ player_rect' = prect
         /\ player_image' = PlayerPose(t, eating_end_time)
         /\ events' = upd.posted
         /\ missed_log' = missed_log \o [i \in 1..Len(upd.posted) |->
                                            <<upd.posted[i].id, upd.posted[i].pos>>]
         /\ eating_end_time' = c.eating_end_time
         /\ score' = c.score
         /\ game_over' = c.game_over
         /\ falling_objects' = c.falling
         /\ floating_texts' = TextLoop(c.texts, t)
         /\ probe' = [played |-> TRUE, player |-> prect, items |-> upd.alive,
                      score0 |-> score, soft |-> c.soft, calls |-> c.calls,
                      hits |-> c.hits,
                      seen |-> NSpawns(events \o ext, FALSE), spawned |-> st.spawned,
                      texts0 |-> Len(st.texts), posted |-> upd.posted,
                      queue |-> <<>>, phase0 |-> Phase, t |-> t]
       ELSE
         /\ shown' = Render(TRUE, st.final_screen, shown, t)
         /\ running' = Survives(Render(TRUE, st.final_screen, shown, t))
         /\ events' = <<>>
         /\ falling_objects' = st.falling
         /\ floating_texts' = TextLoop(st.texts, t)
         /\ probe' = [NoProbe EXCEPT !.t = t, !.seen = NSpawns(events \o ext, FALSE),
                                      !.spawned = st.spawned,
                                      !.queue = events \o ext,
                                      !.phase0 = Phase]
         /\ UNCHANGED <<game_over, score, player_rect, player_image,
                        eating_end_time, missed_log>>

Frame ==
    /\ running
    /\ pc = "loop"
    /\ frame_no < MaxFrames
    /\ \E in \in FrameInputs :
         /\ Cardinality(falling_objects) + NSpawns(in.ext, FALSE) <= MaxItems
         /\ \E rnd \in [1..NSpawns(in.ext, game_over) -> SpawnDraws] :
              FrameStep(in.ext, in.left, in.right, in.dt, rnd)

Next == Frame

Spec == Init /\ [][Next]_vars

---------------------------------------------------------------------------
(* The collision and scoring steps on their own                            *)

\* Sprites of a unit run: x from left of the player to right of it, y around
\* the player's top edge.
PipelineXs == {200, 210, 270, 335, 345, 349, 350, 400}
PipelineYs == {640, 641, 650, 651, 705, 710}
PipelineSprites ==
    {Sprite(1, x, y, FALLING_OBJECT_SPEED_MIN) : x \in PipelineXs, y \in PipelineYs}

\* Sprite groups of at most MaxPipelineItems sprites, with ids 1, 2, ... in
\* the order of creation: the sprites have one speed, so the one that has
\* fallen further was created first.
RECURSIVE Numbered(_, _)
Numbered(S, n) ==
    IF S = {} THEN {}
    ELSE LET o == CHOOSE p \in S : \A q \in S :
                     <<p.rect.x, p.rect.y>> = <<q.rect.x, q.rect.y>>
                     \/ p.rect.y > q.rect.y
                     \/ (p.rect.y = q.rect.y /\ p.rect.x < q.rect.x)
         IN {[o EXCEPT !.id = n]} \cup Numbered(S \ {o}, n + 1)

RECURSIVE GroupsUpTo(_)
GroupsUpTo(n) ==
    IF n = 0 THEN {{}}
    ELSE LET G == GroupsUpTo(n - 1)
         IN G \cup {g \cup {o} : g \in G, o \in PipelineSprites}

PipelineGroups == {Numbered(S, 1) : S \in GroupsUpTo(MaxPipelineItems)}

InitPipeline ==
    /\ pc = "input"
    /\ game_over = FALSE
    /\ final_screen = FALSE
    /\ running = TRUE
    /\ score \in ScoreStarts
    /\ player_rect = PlayerStartRect
    /\ player_image = "original"
    /\ eating_end_time = 0
    /\ falling_objects \in PipelineGroups
    /\ floating_texts = <<>>
    /\ events = <<>>
    /\ now = StartNow
    /\ next_id = Cardinality(falling_objects) + 1
    /\ frame_no = 0
    /\ missed_log = <<>>
    /\ text_log = <<>>
    /\ ending_animation = AnimatedGif(FALSE, <<>>, 0)
    /\ final_animation = AnimatedGif(FALSE, <<>>, 0)
    /\ shown = Unqueried
    /\ probe = NoProbe

\* The soft-contact loop, spritecollide and the win test of one Playing
\* frame, applied to the player and the sprite group as given.
PipelineStep ==
    /\ pc = "input"
    /\ \E c \in {Collide(player_rect, falling_objects, floating_texts, score,
                         eating_end_time, now)} :
         /\ eating_end_time' = c.eating_end_time
         /\ score' = c.score
         /\ game_over' = c.game_over
         /\ falling_objects' = c.falling
         /\ floating_texts' = c.texts
         /\ probe' = [NoProbe EXCEPT !.played = TRUE, !.player = player_rect,
                                      !.items = falling_objects, !.score0 = score,
                                      !.soft = c.soft, !.calls = c.calls,
                                      !.hits = c.hits, !.t = now]
    /\ pc' = "done"
    /\ UNCHANGED <<final_screen, running, player_rect, player_image, events, now,
                   next_id, frame_no, missed_log, text_log, ending_animation,
                   final_animation, shown>>

NextPipeline == PipelineStep

SpecPipeline == InitPipeline /\ [][NextPipeline]_vars

---------------------------------------------------------------------------
(* FloatingText on its own                                                 *)

\* A message created at get_ticks() = StartNow and updated at non-decreasing
\* times, without being removed from any list.
InitText ==
    /\ pc = "text"
    /\ game_over = FALSE
    /\ final_screen = FALSE
    /\ running = TRUE
    /\ score = 0
    /\ player_rect = PlayerStartRect
    /\ player_image = "original"
    /\ eating_end_time = 0
    /\ falling_objects = {}
    /\ \E x \in SpawnXs :
         floating_texts =
             <<NewText(1, TextAnchor(<<x + ITEM_SIZE \div 2, SCREEN_HEIGHT + ITEM_SIZE \div 2 + 1>>),
                       StartNow)>>
    /\ events = <<>>
    /\ now = StartNow
    /\ next_id = 2
    /\ frame_no = 0
    /\ missed_log = <<>>
    /\ text_log = <<>>
    /\ ending_animation = AnimatedGif(FALSE, <<>>, 0)
    /\ final_animation = AnimatedGif(FALSE, <<>>, 0)
    /\ shown = Unqueried
    /\ probe = NoProbe

TextTick ==
    /\ pc = "text"
    /\ \E dt \in 0..MaxTextStep :
         /\ now + dt <= StartNow + TEXT_DURATION + TextOverrun
         /\ now' = now + dt
         /\ floating_texts' = <<TextUpdate(floating_texts[1], now + dt)>>
    /\ UNCHANGED <<game_over, final_screen, running, score, player_rect, player_image,
                   eating_end_time, falling_objects, events, next_id, frame_no,
                   missed_log, text_log, ending_animation, final_animation, shown,
                   probe, pc>>

NextText == TextTick

SpecText == InitText /\ [][NextText]_vars

---------------------------------------------------------------------------
(* AnimatedGif on its own                                                  *)

\* Frame durations a file may carry: none, two hundredths of a second, and
\* the default taken when the file gives no duration.
GifDurations == {0, 20, DEFAULT_GIF_DURATION}

RECURSIVE DurationLists(_)
DurationLists(n) ==
    IF n = 0 THEN {<<>>}
    ELSE LET L == DurationLists(n - 1)
         IN L \cup {Append(l, d) : l \in {k \in L : Len(k) = n - 1}, d \in GifDurations}

\* The files an animation is loaded from: one that does not open, and files
\* of 1 .. MaxGifFrames frames.
GifLoads ==
    {[opened |-> FALSE, durs |-> <<>>]}
        \cup {[opened |-> TRUE, durs |-> l] : l \in DurationLists(MaxGifFrames) \ {<<>>}}

\* An animation constructed at get_ticks() = StartNow, not yet queried.
InitGif ==
    /\ pc = "gif"
    /\ game_over = TRUE
    /\ final_screen = FALSE
    /\ running = TRUE
    /\ score = WIN_SCORE
    /\ player_rect = PlayerStartRect
    /\ player_image = "original"
    /\ eating_end_time = 0
    /\ falling_objects = {}
    /\ floating_texts = <<>>
    /\ events = <<>>
    /\ now = StartNow
    /\ next_id = 1
    /\ frame_no = 0
    /\ missed_log = <<>>
    /\ text_log = <<>>
    /\ \E load \in GifLoads : ending_animation = AnimatedGif(load.opened, load.durs, StartNow)
    /\ final_animation = AnimatedGif(FALSE, <<>>, 0)
    /\ shown = Unqueried
    /\ probe = NoProbe

\* get_current_frame() called dt ms after the last call (or the construction).
\* An exception it raises is not caught by main: the process ends.
GifQuery ==
    /\ pc = "gif"
    /\ \E dt \in 0..MaxGifStep :
         /\ now + dt <= StartNow + GifSpan
         /\ now' = now + dt
         /\ shown' = get_current_frame(ending_animation, now + dt)
         /\ pc' = IF get_current_frame(ending_animation, now + dt).status \in {"frame", "None"}
                  THEN "gif" ELSE "raised"
    /\ UNCHANGED <<game_over, final_screen, running, score, player_rect, player_image,
                   eating_end_time, falling_objects, floating_texts, events, next_id,
                   frame_no, missed_log, text_log, ending_animation, final_animation,
                   probe>>

NextGif == GifQuery

SpecGif == InitGif /\ [][NextGif]_vars

---------------------------------------------------------------------------
(* Properties                                                              *)

Ids(S) == {o.id : o \in S}
Rects(S) == {o.rect : o \in S}
Max(a, b) == IF a >= b THEN a ELSE b

\* The pixels of two rects: some column and some row belong to both.
SharePixel(a, b) ==
    /\ \E x \in a.x..(a.x + a.w - 1) : b.x <= x /\ x <= b.x + b.w - 1
    /\ \E y \in a.y..(a.y + a.h - 1) : b.y <= y /\ y <= b.y + b.h - 1

\* The empty columns (rows) between two rects; negative when they overlap.
HGap(a, b) == Max(b.x - (a.x + a.w), a.x - (b.x + b.w))
VGap(a, b) == Max(b.y - (a.y + a.h), a.y - (b.y + b.h))

\* C1: the phase never regresses: game_over and final_screen, once true,
\* stay true, and the only phase changes are Playing to Ended and Ended to
\* Final, whatever the events and keys of the frame.
C1_PhaseNeverRegresses ==
    [][/\ game_over => game_over'
       /\ final_screen => final_screen'
       /\ Phase' # Phase =>
            <<Phase, Phase'>> \in {<<"Playing", "Ended">>, <<"Ended", "Final">>}]_vars

\* A session that went Playing, Ended, Final and then ran a further frame.
C1_Witness == final_screen /\ game_over /\ running /\ frame_no >= 3

\* C2: the phase goes from Playing to Ended in exactly the frame whose hard
\* captures first bring the score to WIN_SCORE or more (counted before the
\* test), never later in another frame, never back; at the end of that frame
\* the sprite group and the message list are empty.
C2_WinOnce ==
    [][/\ (~game_over /\ game_over') =>
            /\ probe'.played
            /\ score < WIN_SCORE
            /\ score' >= WIN_SCORE
            /\ score' = score + Cardinality(probe'.hits)
            /\ falling_objects' = {}
            /\ floating_texts' = <<>>
       /\ (~game_over /\ score' >= WIN_SCORE) => game_over'
       /\ game_over => game_over']_vars

\* A winning frame that had an uncaptured sprite and a message to clear.
C2_Witness ==
    /\ game_over /\ probe.played
    /\ probe.score0 < WIN_SCORE /\ score >= WIN_SCORE
    /\ probe.items \ probe.hits # {}
    /\ probe.texts0 > 0
    /\ falling_objects = {} /\ floating_texts = <<>>

\* C3: the score is a natural number that never decreases, and a frame run
\* while game_over is true (Ended or Final) leaves it unchanged.
C3_ScoreMonotone ==
    /\ [](score \in Nat)
    /\ [][score' >= score /\ (game_over => score' = score)]_vars

\* A frame was run on the ending screen after a win.
C3_Witness ==
    /\ game_over /\ running /\ ~probe.played /\ probe.t = now
    /\ score >= WIN_SCORE

\* C4: the hard-capture step removes exactly the sprites whose rect shares
\* a pixel with the player's rect (neither inflated) and adds their number
\* to the score; the others stay unless the win clears the group.  Player
\* (260,700,80,80) with sprite (270,710,50,50): removed, score + 1; with
\* sprite (400,710,50,50): nothing removed, no reaction.
C4_HardCapture ==
    pc = "done" =>
      /\ probe.hits = {o \in probe.items : SharePixel(probe.player, o.rect)}
      /\ score = probe.score0 + Cardinality(probe.hits)
      /\ ~game_over => falling_objects = probe.items \ probe.hits
      /\ (/\ probe.player = Rect(260, 700, 80, 80)
          /\ Rects(probe.items) = {Rect(270, 710, 50, 50)}) =>
             /\ falling_objects = {}
             /\ score = probe.score0 + 1
      /\ (/\ probe.player = Rect(260, 700, 80, 80)
          /\ Rects(probe.items) = {Rect(400, 710, 50, 50)}) =>
             /\ falling_objects = probe.items
             /\ score = probe.score0
             /\ ~probe.soft
             /\ eating_end_time = 0

\* The step ran on two sprites, captured (270,710,50,50) and left
\* (400,710,50,50) in the group.
C4_Witness ==
    /\ pc = "done" /\ ~game_over
    /\ probe.player = Rect(260, 700, 80, 80)
    /\ Rects(probe.items) = {Rect(270, 710, 50, 50), Rect(400, 710, 50, 50)}
    /\ Rects(falling_objects) = {Rect(400, 710, 50, 50)}
    /\ score = probe.score0 + 1

\* C5: in a Playing frame every SPAWN_EVENT handled creates exactly one new
\* sprite, which joins the group; in a frame run while game_over is true no
\* sprite is created and the group gains nothing.
C5_SpawnOnlyWhilePlaying ==
    [][/\ (~game_over /\ probe'.played) =>
            /\ Cardinality(probe'.spawned) = probe'.seen
            /\ probe'.spawned \cap Ids(falling_objects) = {}
            /\ Ids(probe'.items) \cup {e.id : e \in {probe'.posted[i] : i \in DOMAIN probe'.posted}}
                   = Ids(falling_objects) \cup probe'.spawned
            /\ Cardinality(probe'.items) + Len(probe'.posted)
                   = Cardinality(falling_objects) + probe'.seen
       /\ game_over =>
            /\ falling_objects' \subseteq falling_objects
            /\ probe'.spawned = {}
            /\ next_id' = next_id]_vars

\* A session that spawned a sprite while Playing and, after the win, ran a
\* frame that handled a SPAWN_EVENT.
C5_Witness ==
    /\ game_over /\ running /\ probe.t = now
    /\ probe.seen >= 1
    /\ next_id > 3
    /\ falling_objects = {}

\* C6: a sprite posts MISSED_EVENT in exactly the update that takes its top
\* edge past SCREEN_HEIGHT, with its centre as position, and leaves the
\* group in that update; no sprite is in the log twice, none that is in the
\* log is still in the group.
C6_MissedOnce ==
    [][/\ \A i, j \in DOMAIN missed_log' :
            i # j => missed_log'[i][1] # missed_log'[j][1]
       /\ \A i \in DOMAIN missed_log' : missed_log'[i][1] \notin Ids(falling_objects')
       /\ \A o \in falling_objects' : o.rect.y <= SCREEN_HEIGHT
       /\ Len(missed_log') >= Len(missed_log)
       /\ SubSeq(missed_log', 1, Len(missed_log)) = missed_log
       /\ (~game_over /\ probe'.played) =>
            \A o \in falling_objects :
               (o.rect.y + o.speed > SCREEN_HEIGHT) <=>
                  \E i \in (Len(missed_log) + 1)..Len(missed_log') :
                     missed_log'[i] = <<o.id, <<o.rect.x + o.rect.w \div 2,
                                                 o.rect.y + o.speed + o.rect.h \div 2>>>>
       /\ (game_over \/ ~probe'.played) => missed_log' = missed_log]_vars

\* Two sprites have left the field and two more frames have run since.
C6_Witness ==
    /\ Len(missed_log) >= 2
    /\ frame_no >= 3
    /\ running

\* C7: the player's rect lies within the field horizontally after every
\* Player.update, whichever arrow keys are held.
C7_PlayerInField ==
    /\ player_rect.x >= 0
    /\ player_rect.x + player_rect.w <= SCREEN_WIDTH

\* Player.update has run and the player's rect is against an edge of the field.
C7_Witness ==
    /\ probe.played
    /\ frame_no >= 2
    /\ player_rect.x \in {0, SCREEN_WIDTH - PLAYER_SIZE}

\* C8 as claimed: player (260,700,80,80) and the single sprite
\* (335,705,50,50): the reaction is triggered, the sprite stays in the group
\* and the score is unchanged.
C8_AsClaimed ==
    (/\ pc = "done"
     /\ probe.player = Rect(260, 700, 80, 80)
     /\ Rects(probe.items) = {Rect(335, 705, 50, 50)}) =>
        /\ eating_end_time = probe.t + EATING_DURATION
        /\ falling_objects = probe.items
        /\ score = probe.score0

\* C8, amended: sprite (335,705,50,50) overlaps player (260,700,80,80) by 5
\* columns (335 < 340), so the frame triggers the reaction, removes the
\* sprite and adds 1 to the score; it is the sprite (345,705,50,50), 5
\* columns right of the player, that triggers the reaction
\* (eating_end_time = now + 1000) and stays in the group, score unchanged.
C8_SoftWithoutCapture ==
    (pc = "done" /\ probe.player = Rect(260, 700, 80, 80)) =>
      /\ Rects(probe.items) = {Rect(335, 705, 50, 50)} =>
           /\ probe.soft
           /\ eating_end_time = probe.t + EATING_DURATION
           /\ falling_objects = {}
           /\ score = probe.score0 + 1
      /\ Rects(probe.items) = {Rect(345, 705, 50, 50)} =>
           /\ probe.soft
           /\ eating_end_time = probe.t + EATING_DURATION
           /\ falling_objects = probe.items
           /\ score = probe.score0

\* The step ran on the single sprite (345,705,50,50): reaction, no capture.
C8_Witness ==
    /\ pc = "done"
    /\ probe.player = Rect(260, 700, 80, 80)
    /\ Rects(probe.items) = {Rect(345, 705, 50, 50)}
    /\ Rects(falling_objects) = {Rect(345, 705, 50, 50)}
    /\ eating_end_time = now + EATING_DURATION

\* C9 as claimed: a single sprite that overlaps the player vertically and is
\* 10 columns away from it horizontally triggers the reaction.
C9_AsClaimed ==
    pc = "done" =>
      \A o \in probe.items :
         (/\ probe.items = {o}
          /\ VGap(probe.player, o.rect) < 0
          /\ HGap(probe.player, o.rect) = 10) => probe.soft

\* C9, amended: soft contact is detected exactly when some sprite is fewer
\* than 10 columns and fewer than 10 rows away from the player's rect: the
\* sprite's rect grows by 20 on each axis, 10 on each side.  A sprite that
\* overlaps the player vertically triggers the reaction at a horizontal gap
\* of 0 to 9 and does not at a gap of 10.
C9_SoftContact ==
    pc = "done" =>
      /\ probe.soft <=>
           \E o \in probe.items :
              /\ HGap(probe.player, o.rect) < INFLATE_BY \div 2
              /\ VGap(probe.player, o.rect) < INFLATE_BY \div 2
      /\ probe.soft => eating_end_time = probe.t + EATING_DURATION
      /\ ~probe.soft => eating_end_time = 0
      /\ \A o \in probe.items :
           (probe.items = {o} /\ VGap(probe.player, o.rect) < 0) =>
              /\ HGap(probe.player, o.rect) \in 0..9 => probe.soft
              /\ HGap(probe.player, o.rect) = 10 => ~probe.soft

\* The step ran on a single sprite 9 columns right of the player, beside it.
C9_Witness ==
    /\ pc = "done"
    /\ probe.soft
    /\ \E o \in probe.items :
         /\ probe.items = {o}
         /\ VGap(probe.player, o.rect) < 0
         /\ HGap(probe.player, o.rect) = 9

\* C10 as claimed: after any update, is_dead() holds exactly from
\* now = created + duration on.
C10_AsClaimed ==
    pc = "text" =>
      (is_dead(floating_texts[1])
         <=> now - floating_texts[1].start_time >= floating_texts[1].duration)

\* C10, amended: is_dead() first holds at the first update at which
\* 255 * (1 - elapsed / duration) is below 1, that is from
\* elapsed * 255 > 254 * duration on (now >= created + 997 for the
\* duration of 1000), which is before created + duration; it holds at
\* every later update, and alpha never increases from one update to the next.
C10_TextFades ==
    [][pc = "text" =>
         LET a == floating_texts[1]
             b == floating_texts'[1]
             elapsed == now' - b.start_time
         IN /\ is_dead(b) <=> elapsed * FULL_ALPHA > (FULL_ALPHA - 1) * b.duration
            /\ elapsed >= b.duration => is_dead(b)
            /\ is_dead(a) => is_dead(b)
            /\ b.alpha <= a.alpha
            /\ b.alpha >= 0]_vars

\* The message is dead 3 ms before its duration has elapsed.
C10_Witness ==
    /\ pc = "text"
    /\ is_dead(floating_texts[1])
    /\ now - floating_texts[1].start_time = floating_texts[1].duration - 3

---------------------------------------------------------------------------
\* C11: an animation is periodic in its total duration: whenever
\* get_current_frame returns a frame at time now, it returns that same frame
\* at time now + total_duration.
C11_Periodic ==
    (pc = "gif" /\ shown.status = "frame")
        => shown = get_current_frame(ending_animation, now + ending_animation.total_duration)

\* A query in a later period of an animation of several frames that shows
\* the first one again.
C11_Witness ==
    /\ pc = "gif"
    /\ shown = FrameResult(1)
    /\ Len(ending_animation.frames) >= 2
    /\ ending_animation.durations[1] > 0
    /\ ending_animation.durations[2] > 0
    /\ now >= ending_animation.start_time + ending_animation.total_duration

---------------------------------------------------------------------------
\* C12 as the specification states it: querying the current frame never
\* faults: an animation without frames yields no frame, and an animation
\* whose frames' durations sum to zero yields its last frame.
C12_AsClaimed ==
    (pc \in {"gif", "raised"} /\ shown # Unqueried)
        => /\ shown.status \in {"frame", "None"}
           /\ ending_animation.frames = <<>> => shown = NoneResult
           /\ (ending_animation.frames # <<>> /\ ending_animation.cumulative_durations[Len(ending_animation.frames)] = 0)
                 => shown = FrameResult(ending_animation.frames[Len(ending_animation.frames)])

\* What the code does in the two degenerate cases: no frame for an animation
\* without frames, ZeroDivisionError for one whose durations sum to zero.
C12_Degenerate ==
    (pc \in {"gif", "raised"} /\ shown # Unqueried)
        => /\ ending_animation.frames = <<>> => shown = NoneResult
           /\ (ending_animation.frames # <<>> /\ ending_animation.cumulative_durations[Len(ending_animation.frames)] = 0)
                 => (shown = Raised("ZeroDivisionError") /\ pc = "raised")
           /\ (ending_animation.frames # <<>> /\ ending_animation.cumulative_durations[Len(ending_animation.frames)] > 0)
                 => shown.status = "frame"

\* A query of an animation of two frames, both of duration 0, that raised.
C12_Witness ==
    /\ pc = "raised"
    /\ shown = Raised("ZeroDivisionError")
    /\ ending_animation.durations = <<0, 0>>

---------------------------------------------------------------------------
\* The points of the ending screen's button: 150 x 50 pixels around
\* (SCREEN_WIDTH // 2, SCREEN_HEIGHT // 2 + 140).
OnButton(p) ==
    /\ p[1] \in (SCREEN_WIDTH \div 2 - 75)..(SCREEN_WIDTH \div 2 + 74)
    /\ p[2] \in (SCREEN_HEIGHT \div 2 + 115)..(SCREEN_HEIGHT \div 2 + 164)

\* C13 as the specification states it: on the ending screen the phase
\* becomes Final exactly when a mouse-button-down event with its position
\* on the button is handled, whatever the button pressed.
C13_AsClaimed ==
    [][(pc = "loop" /\ Phase = "Ended" /\ running')
          => (final_screen' <=>
                \E i \in DOMAIN probe'.queue :
                    /\ probe'.queue[i].type = "MOUSEBUTTONDOWN"
                    /\ OnButton(probe'.queue[i].pos))]_vars

\* C13: on the ending screen a mouse-button-down event of the left button
\* (button 1) with its position on the button changes the phase to Final,
\* and nothing else does: not a click off the button, a click of another
\* button on it, a key press, a spawn or a missed event.  The phase is
\* Ended or Final after the frame, never Playing.
C13_LeftClickOnly ==
    [][(pc = "loop" /\ Phase = "Ended")
          => LET left == \E i \in DOMAIN probe'.queue :
                             /\ probe'.queue[i].type = "MOUSEBUTTONDOWN"
                             /\ probe'.queue[i].button = 1
                             /\ OnButton(probe'.queue[i].pos)
             IN /\ game_over'
                /\ final_screen' => left
                /\ (running' /\ left) => final_screen']_vars

\* The frame that handled a left click on the button on the ending screen,
\* and now shows the final screen.
C13_Witness ==
    /\ pc = "loop"
    /\ probe.phase0 = "Ended"
    /\ Phase = "Final"
    /\ running
    /\ probe.queue = <<ClickIn>>

---------------------------------------------------------------------------
\* The message a missed signal of sprite id at position pos is due: anchored
\* at pos, or at the height SCREEN_HEIGHT - 50 if pos is below it.
DueText(id, pos) ==
    <<id, <<pos[1], IF pos[2] > SCREEN_HEIGHT - 50 THEN SCREEN_HEIGHT - 50 ELSE pos[2]>>>>

\* The messages due for the signals emitted so far, and for those queued.
DueLog == [i \in 1..Len(missed_log) |-> DueText(missed_log[i][1], missed_log[i][2])]
DueQueue == [i \in 1..Len(events) |-> DueText(events[i].id, events[i].pos)]

\* C14 as the specification states it: no missed signal is lost, duplicated
\* or reordered: while the process runs, the messages created so far,
\* followed by those due for the signals still queued, are the messages due
\* for the signals emitted so far, in emission order.
C14_AsClaimed ==
    (pc = "loop" /\ running) => text_log \o DueQueue = DueLog

\* C14: the missed signals emitted by a Playing frame that does not reach
\* the win are drained by the next frame's event loop exactly once, in
\* emission order, and each becomes exactly one message, which is on the
\* list after that frame unless the frame reaches the win.  A frame run
\* after the win drains the queue and creates no message.
C14_MissedToText ==
    [][pc = "loop" =>
         /\ (running' /\ ~game_over') => text_log' \o DueQueue' = DueLog'
         /\ ~game_over => text_log' = text_log \o DueQueue
         /\ (running' /\ ~game_over')
               => \A i \in DOMAIN events :
                     Cardinality({j \in DOMAIN floating_texts' :
                                     floating_texts'[j].id = events[i].id}) = 1
         /\ game_over => (text_log' = text_log /\ events' = <<>>)]_vars

\* Two signals emitted by one frame have become two messages, in order, in
\* the next.
C14_Witness ==
    /\ pc = "loop"
    /\ running
    /\ ~game_over
    /\ Len(text_log) = 2
    /\ text_log = DueLog
    /\ Len(floating_texts) = 2
    /\ floating_texts[1].id = text_log[1][1]
    /\ floating_texts[2].id = text_log[2][1]

---------------------------------------------------------------------------
\* C15: a Playing frame calls trigger_eating at most once however many
\* sprites are in soft contact, and the reaction does not stack: after a
\* frame with soft contact at time now, eating_end_time is now + 1000
\* whatever it was before, so it never lies more than 1000 ms ahead.
C15_NoStacking ==
    [][(pc = "loop" /\ probe'.played)
          => /\ probe'.calls <= 1
             /\ probe'.soft <=> probe'.calls = 1
             /\ probe'.soft => eating_end_time' = now' + 1000
             /\ ~probe'.soft => eating_end_time' = eating_end_time
             /\ eating_end_time' <= now' + 1000]_vars

\* A frame with two sprites in soft contact, run while an earlier reaction
\* had not expired.
C15_Witness ==
    /\ pc = "loop"
    /\ probe.played
    /\ Cardinality({o \in probe.items :
                       colliderect(probe.player, inflate(o.rect, INFLATE_BY, INFLATE_BY))}) = 2
    /\ probe.calls = 1
    /\ player_image = "eating"
    /\ eating_end_time = now + 1000

---------------------------------------------------------------------------
\* C16: in every frame drawn while Playing the player is drawn with the
\* eating image if and only if now < eating_end_time held when Player.update
\* ran, which is before the frame's soft-contact loop: the test uses the
\* eating_end_time the frame started with, so the frame that first triggers
\* a reaction still draws the original image.
C16_Pose ==
    [][(pc = "loop" /\ probe'.played /\ ~game_over')
          => /\ player_image' \in {"eating", "original"}
             /\ player_image' = "eating" <=> now' < eating_end_time]_vars

\* A drawn frame that triggered a reaction from rest: the original image is
\* drawn although now < eating_end_time holds after the frame.
C16_Witness ==
    /\ pc = "loop"
    /\ probe.played
    /\ ~game_over
    /\ probe.soft
    /\ player_image = "original"
    /\ now < eating_end_time

---------------------------------------------------------------------------
\* C17 as the specification states it: after update at time now the message
\* stands floor((elapsed / duration) * 30) above its anchor, clamped to the
\* full travel: never more than 30 above the anchor, also when
\* elapsed > duration.
C17_AsClaimed ==
    pc = "text"
        => LET txt == floating_texts[1]
               elapsed == now - txt.start_time
               rise == (elapsed * 30) \div txt.duration
           IN /\ txt.y = txt.y0 - (IF rise > 30 THEN 30 ELSE rise)
              /\ txt.y0 - txt.y <= 30

\* What update does: the rise is floor((elapsed / duration) * 30) with no
\* clamp; it is within the travel up to the duration and beyond it from
\* elapsed = duration * 31 / 30 on.
C17_Unclamped ==
    pc = "text"
        => LET txt == floating_texts[1]
               elapsed == now - txt.start_time
           IN /\ txt.y0 - txt.y = (elapsed * 30) \div txt.duration
              /\ elapsed <= txt.duration => txt.y0 - txt.y <= 30
              /\ elapsed * 30 >= txt.duration * 31 => txt.y0 - txt.y > 30

\* A message updated 1034 ms after its creation: it stands 31 above its anchor.
C17_Witness ==
    /\ pc = "text"
    /\ now = floating_texts[1].start_time + 1034
    /\ floating_texts[1].y = floating_texts[1].y0 - 31

---------------------------------------------------------------------------
\* The sum of the first n durations of the animation.
RECURSIVE DurationSum(_)
DurationSum(n) == IF n = 0 THEN 0 ELSE DurationSum(n - 1) + ending_animation.durations[n]

\* C18: for an animation with frames and a positive total duration,
\* get_current_frame returns frames[i] for the smallest i with
\* elapsed < cumulative_durations[i], where elapsed is (now - start_time)
\* modulo total_duration: the frame i whose time slot, the ms from the sum of
\* the durations before it up to its own cumulative duration, holds elapsed.
\* The query reads only now and the start time and changes nothing of the
\* animation, so a second query at the same now returns the same frame.
C18_FrameOfElapsed ==
    [][(pc = "gif" /\ ending_animation.frames # <<>> /\ DurationSum(Len(ending_animation.frames)) > 0)
          => \E i \in DOMAIN ending_animation.frames :
                LET total == DurationSum(Len(ending_animation.frames))
                    periods == (now' - ending_animation.start_time) \div total
                    elapsed == now' - ending_animation.start_time - periods * total
                IN /\ 0 <= elapsed
                   /\ elapsed < total
                   /\ DurationSum(i - 1) <= elapsed
                   /\ elapsed < DurationSum(i)
                   /\ shown' = FrameResult(ending_animation.frames[i])
                   /\ pc' = "gif"
                   /\ ending_animation' = ending_animation
                   /\ (now' = now /\ shown # Unqueried) => shown' = shown]_vars

\* A query exactly one period after the construction of an animation whose
\* first frame has duration 0: the second frame is shown.
C18_Witness ==
    /\ pc = "gif"
    /\ ending_animation.durations = <<0, 20, DEFAULT_GIF_DURATION>>
    /\ now = ending_animation.start_time + ending_animation.total_duration
    /\ shown = FrameResult(2)

---------------------------------------------------------------------------
\* C19: hard capture implies soft contact in the same frame: whenever the
\* collision step of a Playing frame captures a sprite (the score rises),
\* it has also triggered the reaction, so that eating_end_time is the
\* frame's time + 1000 after it.
C19_CaptureTriggers ==
    (pc = "done" /\ probe.played /\ (probe.hits # {} \/ score > probe.score0))
        => /\ probe.soft
           /\ probe.calls = 1
           /\ eating_end_time = probe.t + 1000

\* A capture of a sprite that overlaps the player's right edge by 5 pixels,
\* with eating_end_time set from rest.
C19_Witness ==
    /\ pc = "done"
    /\ probe.played
    /\ score = probe.score0 + 1
    /\ \E o \in probe.hits : o.rect.x = probe.player.x + probe.player.w - 5
    /\ eating_end_time = now + 1000

---------------------------------------------------------------------------
\* C20: a sprite leaves the group by exactly one cause.  In every Playing
\* frame the sprites that were in the group or were spawned in the frame and
\* are no longer in it after the frame are those that posted MISSED_EVENT,
\* those that were hit and, if the frame reaches the win, those that were
\* cleared; no sprite is in two of these sets, no sprite that is hit has
\* ever posted MISSED_EVENT, the score rises by the number of sprites hit,
\* and a sprite that has left does not come back.
C20_OneCause ==
    [][(pc = "loop" /\ ~game_over /\ probe'.played)
          => LET before == Ids(falling_objects) \cup probe'.spawned
                 left == before \ Ids(falling_objects')
                 missed == {probe'.posted[i].id : i \in DOMAIN probe'.posted}
                 hit == Ids(probe'.hits)
                 cleared == IF game_over' THEN Ids(probe'.items) \ hit ELSE {}
             IN /\ left = missed \cup hit \cup cleared
                /\ missed \cap hit = {}
                /\ missed \cap cleared = {}
                /\ game_over' => hit # {}
                /\ ~game_over' => cleared = {}
                /\ hit \cap {missed_log'[i][1] : i \in DOMAIN missed_log'} = {}
                /\ score' = score + Cardinality(hit)
                /\ Ids(falling_objects') \subseteq before
                /\ \A id \in probe'.spawned : id >= next_id]_vars

\* A frame in which one sprite left by the bottom and another was captured.
C20_Witness ==
    /\ pc = "loop"
    /\ probe.played
    /\ Len(probe.posted) = 1
    /\ Cardinality(probe.hits) = 1
    /\ probe.posted[1].id \notin Ids(probe.hits)
    /\ falling_objects = {}

====
